---- MODULE Spec2Model ----
(***************************************************************************)
(* camserver: the websocket frame server of starcam.                       *)
(*                                                                         *)
(* The server is one asyncio event loop.  Its tasks are the ws_open and    *)
(* ws_close handlers the transport starts for a connection, and the simcam *)
(* producer task that ws_open creates.  A task runs without interruption   *)
(* until it suspends (await asyncio.sleep, or an acquire of a held lock)   *)
(* or ends; cur names the task that holds the loop's thread.  The steps of *)
(* a task are split finer than its suspension points so that the state     *)
(* inside a handler (lock held, message just sent) is visible; no other    *)
(* task can run between them.  The only events that interleave with a      *)
(* running task are those of the network (a client's socket breaking).     *)
(***************************************************************************)
EXTENDS Integers, Sequences, FiniteSets, TLC

\* ---------------------------------------------------------------- bounds
NumClients == 2     \* connections the transport ever opens
MaxFrames == 2      \* framesProduced saturates here
CapMs == 200        \* sinceSend saturates here

Clients == 1..NumClients

MaxStarts == 2      \* start_capture calls, so capture threads ever created
MaxCallbacks == 2   \* add_callback calls
MaxPixels == 2      \* samples of a frame handed to callback
MaxFileFrames == 2  \* frame_count of the recorded file

Threads == 1..MaxStarts

\* ------------------------------------------------------------- constants
\* camserver.py:17-19, each as <<high 16 bits, low 16 bits>>
frameheader == <<63651, 63651>>            \* 0xf8a3f8a3
frameinfoheader == <<12890, 12954>>        \* 0x325a329a
framehistogramheader == <<13453, 42488>>   \* 0x348da5f8

SleepMs == 100      \* await asyncio.sleep(0.1), camserver.py:88
ReplaySleepMs == 60 \* await asyncio.sleep(0.06), camserver.py:79

\* int.to_bytes(4, 'little')
to_bytes_big(m) ==
    <<m[1] \div 256, m[1] % 256, m[2] \div 256, m[2] % 256>>
to_bytes_little(m) ==
    <<m[2] % 256, m[2] \div 256, m[1] % 256, m[1] \div 256>>

\* ----------------------------------------------------------------- state
VARIABLES
    clients,        \* the module-level set of websockets
    started,        \* the module-level flag
    lock,           \* holder of client_lock
    cur,            \* the task running on the event loop
    hpc,            \* per connection: where its handlers are
    closeRaised,    \* connections whose ws_close ended in KeyError
    broken,         \* connections whose socket send raises
    simTasks,       \* number of simcam tasks created
    pc,             \* position of the simcam task
    framesProduced, \* frames generated so far (saturating)
    frameOk,        \* np.right_shift accepts the current frame's samples
    encoded,        \* the current frame's three messages were built
    sinceSend,      \* ms since the last pass that sent; -1 before the first
    gap,            \* ms between the last two passes that sent; -1 if none
    snap,           \* list(clients) of the current pass, as a set
    todo,           \* clients of list(clients) not yet served in this pass
    order,          \* clients served so far in this pass, in order
    target,         \* client being served, 0 if none
    k,              \* index of the next message for target
    recv,           \* per client: messages received of the current frame
    errored,        \* clients whose send raised in the current pass
    frameCount,     \* serdata.frame_count; 0 when the file does not exist
    idx,            \* simcam's idx
    lastIdx,        \* the index of the last serdata.frame(idx) call, -1 if none
    \* svb.py, SVBonyCamera
    camRunning,     \* self.running
    capThread,      \* self.capture_thread: a thread, 0 for None
    tpc,            \* per capture thread: where it is
    cbi,            \* per capture thread: index of the next callback to call
    nCallbacks,     \* len(self.callbacks)
    driverOn,       \* SVBStartVideoCapture is in effect
    mpc,            \* where the caller of start_capture/stop_capture is
    stopRequested,  \* stop_capture has cleared running since the last start
    getsSinceStop,  \* per thread: SVBGetVideoData calls since then (to 2)
    stopRaised,     \* a stop_capture ended in an exception
    capImg,         \* per thread: 1 while it holds an img, 0 otherwise
    capTs,          \* per thread: dt_now taken for that img, 0 if none
    calls,          \* per thread: callback calls made with that img
    \* one call of callback(frame, timestamp), followed value by value
    fBits,          \* width of the raw samples: 8 for uint8, 16 for uint16
    fRaw,           \* the raw frame, row-major
    fTs,            \* the timestamp
    fStage,         \* "input", "processed" (lines 34-36), "encoded" (37-46)
    fNorm,          \* frame after np.right_shift
    fHist,          \* hist of compute_histogram
    fMsgs           \* frameinfo, framehistogram, senddata

vars == <<clients, started, lock, cur, hpc, closeRaised, broken, simTasks, pc,
          framesProduced, frameOk, encoded, sinceSend, gap, snap, todo, order,
          target, k, recv, errored, frameCount, idx, lastIdx, camRunning, capThread, tpc, cbi,
          nCallbacks, driverOn, mpc, stopRequested, getsSinceStop, stopRaised,
          capImg, capTs, calls,
          fBits, fRaw, fTs, fStage, fNorm, fHist, fMsgs>>

NoTask == <<"none", 0>>
SimTask == <<"simcam", 0>>
Handler(c) == <<"handler", c>>

handlerVars == <<clients, started, lock, hpc, closeRaised, simTasks>>
passVars == <<snap, todo, order, target, k, recv, errored>>
frameVars == <<framesProduced, frameOk, encoded, sinceSend, gap>>

replayVars == <<frameCount, idx, lastIdx>>

serverVars == <<handlerVars, cur, broken, pc, frameVars, passVars, replayVars>>
deliveryVars == <<capImg, capTs, calls>>
camVars == <<camRunning, capThread, tpc, cbi, nCallbacks, driverOn, mpc,
             stopRequested, getsSinceStop, stopRaised, deliveryVars>>
fnVars == <<fBits, fRaw, fTs, fStage, fNorm, fHist, fMsgs>>
otherVars == <<camVars, fnVars, replayVars>>
nonCamVars == <<serverVars, fnVars>>

Saturate(x, cap) == IF x > cap THEN cap ELSE x

\* ------------------------------------------------------------------ Init
\* camserver.py:15-23: no client, not started, no producer task
InitPcCreated == "created"
InitPc == "none"

\* svb.py:95-98, SVBonyCamera.__init__
CamInit ==
    /\ camRunning = FALSE
    /\ capThread = 0
    /\ tpc = [t \in Threads |-> "unborn"]
    /\ cbi = [t \in Threads |-> 0]
    /\ nCallbacks = 0
    /\ driverOn = FALSE
    /\ mpc = "idle"
    /\ stopRequested = FALSE
    /\ getsSinceStop = [t \in Threads |-> 0]
    /\ stopRaised = FALSE
    /\ capImg = [t \in Threads |-> 0]
    /\ capTs = [t \in Threads |-> 0]
    /\ calls = [t \in Threads |-> <<>>]

\* no frame is being followed through callback
FnIdle ==
    /\ fBits = 16
    /\ fRaw = <<0>>
    /\ fTs = 0
    /\ fStage = "input"
    /\ fNorm = <<>>
    /\ fHist = <<>>
    /\ fMsgs = <<>>

ServerInit ==
    /\ clients = {}
    /\ started = FALSE
    /\ lock = NoTask
    /\ cur = NoTask
    /\ hpc = [c \in Clients |-> "new"]
    /\ closeRaised = {}
    /\ broken = {}
    /\ simTasks = IF InitPc = "none" THEN 0 ELSE 1
    /\ pc = InitPc
    /\ framesProduced = 0
    /\ frameOk = TRUE
    /\ encoded = FALSE
    /\ sinceSend = -1
    /\ gap = -1
    /\ snap = {}
    /\ todo = {}
    /\ order = <<>>
    /\ target = 0
    /\ k = 0
    /\ recv = [c \in Clients |-> <<>>]
    /\ errored = {}

\* os.path.exists(fname) is false (camserver.py:67)
NoFile ==
    /\ frameCount = 0
    /\ idx = 0
    /\ lastIdx = -1

Init == ServerInit /\ CamInit /\ FnIdle /\ NoFile

\* ------------------------------------------------------------- registry
\* clients.add(ws), camserver.py:98
RegistryAdd(S, c) == S \cup {c}

\* clients.remove(ws), camserver.py:108: set.remove raises KeyError when the
\* element is absent
RemoveRaises(S, c) == c \notin S

RegistryKeep(S, c) == S
RegistryRemove(S, c) == S \ {c}

\* if started == False, camserver.py:100
AlwaysStart(s) == TRUE
NeverStart(s) == FALSE
ShouldStart(s) == s = FALSE

\* ------------------------------------------------------------- ws_open
\* async with client_lock (camserver.py:97): the lock is taken
WsOpenAcquire(c) ==
    /\ cur = NoTask
    /\ hpc[c] = "new"
    /\ lock = NoTask
    /\ lock' = Handler(c)
    /\ cur' = Handler(c)
    /\ hpc' = [hpc EXCEPT ![c] = "open_locked"]
    /\ UNCHANGED <<clients, started, closeRaised, simTasks, broken, pc>>
    /\ UNCHANGED <<frameVars, passVars>>
    /\ UNCHANGED otherVars

\* clients.add(ws) and the end of the async with block (camserver.py:98)
WsOpenAdd(c) ==
    /\ cur = Handler(c)
    /\ hpc[c] = "open_locked"
    /\ clients' = RegistryAdd(clients, c)
    /\ lock' = NoTask
    /\ hpc' = [hpc EXCEPT ![c] = "open_check"]
    /\ UNCHANGED <<cur, started, closeRaised, simTasks, broken, pc>>
    /\ UNCHANGED <<frameVars, passVars>>
    /\ UNCHANGED otherVars

\* the check of started and asyncio.create_task(simcam()) (camserver.py:100-103)
WsOpenStart(c) ==
    /\ cur = Handler(c)
    /\ hpc[c] = "open_check"
    /\ IF ShouldStart(started)
         THEN /\ started' = TRUE
              /\ simTasks' = simTasks + 1
              /\ pc' = IF pc = "none" THEN "created" ELSE pc
         ELSE UNCHANGED <<started, simTasks, pc>>
    /\ hpc' = [hpc EXCEPT ![c] = "connected"]
    /\ cur' = NoTask
    /\ UNCHANGED <<clients, lock, closeRaised, broken>>
    /\ UNCHANGED <<frameVars, passVars>>
    /\ UNCHANGED otherVars

\* ------------------------------------------------------------ ws_close
\* The transport's close notification for a handle it has opened; its
\* contract does not bound how often it notifies.
\* async with client_lock (camserver.py:107): the lock is taken
WsCloseAcquire(c) ==
    /\ cur = NoTask
    /\ hpc[c] \in {"connected", "closed"}
    /\ lock = NoTask
    /\ lock' = Handler(c)
    /\ cur' = Handler(c)
    /\ hpc' = [hpc EXCEPT ![c] = "closing"]
    /\ UNCHANGED <<clients, started, closeRaised, simTasks, broken, pc>>
    /\ UNCHANGED <<frameVars, passVars>>
    /\ UNCHANGED otherVars

\* clients.remove(ws) (camserver.py:108); the async with block releases the
\* lock whether or not remove raised
WsCloseRemove(c) ==
    /\ cur = Handler(c)
    /\ hpc[c] = "closing"
    /\ IF RemoveRaises(clients, c)
         THEN /\ closeRaised' = closeRaised \cup {c}
              /\ UNCHANGED clients
         ELSE /\ clients' = RegistryRemove(clients, c)
              /\ UNCHANGED closeRaised
    /\ lock' = NoTask
    /\ hpc' = [hpc EXCEPT ![c] = "closed"]
    /\ cur' = NoTask
    /\ UNCHANGED <<started, simTasks, broken, pc>>
    /\ UNCHANGED <<frameVars, passVars>>
    /\ UNCHANGED otherVars

\* ------------------------------------------------------------- network
\* The socket of a connected client breaks: from now on client.send raises.
Break(c) ==
    /\ hpc[c] = "connected"
    /\ c \notin broken
    /\ broken' = broken \cup {c}
    /\ UNCHANGED <<handlerVars, cur, pc>>
    /\ UNCHANGED <<frameVars, passVars>>
    /\ UNCHANGED otherVars

\* -------------------------------------------------------------- simcam
\* the three sends of one client, camserver.py:54-56
HeaderFirst ==
    <<to_bytes_little(frameheader), to_bytes_little(frameinfoheader),
      to_bytes_little(framehistogramheader)>>
SendOrder ==
    <<to_bytes_little(frameinfoheader), to_bytes_little(framehistogramheader),
      to_bytes_little(frameheader)>>

\* len(clients)==0, camserver.py:48
IsEmpty(S) == Cardinality(S) = 0

\* the try/except is inside the for loop (camserver.py:52-58): after a send
\* raised, the loop goes on with the clients left in the list
AbortPass(rest) == {}
AfterSendError(rest) == rest

\* for client in list(clients) (camserver.py:52): the list holds every
\* client once, and the loop moves past the client it has taken
RemainingKeep(rest, c) == rest
Remaining(rest, c) == rest \ {c}

\* the task starts: meshgrid and time.sleep(1), which blocks the loop
\* (camserver.py:62-64)
SimStart ==
    /\ cur = NoTask
    /\ pc = "created"
    /\ pc' = "gen"
    /\ cur' = SimTask
    /\ UNCHANGED <<handlerVars, broken, frameVars, passVars>>
    /\ UNCHANGED otherVars

\* one synthetic frame and its timestamp (camserver.py:82-86)
Generate ==
    /\ cur = SimTask
    /\ pc = "gen"
    /\ frameCount = 0
    /\ framesProduced' = Saturate(framesProduced + 1, MaxFrames)
    /\ frameOk' = TRUE
    /\ encoded' = FALSE
    /\ pc' = "process"
    /\ UNCHANGED <<handlerVars, broken, cur, sinceSend, gap, passVars>>
    /\ UNCHANGED otherVars

\* idx += 1; if idx >= serdata.frame_count: idx = 0 (camserver.py:74-76)
NextIdxLate(i, n) == IF i + 1 > n THEN 0 ELSE i + 1
NextIdx(i, n) == IF i + 1 >= n THEN 0 ELSE i + 1

\* one frame of the recorded file and its timestamp (camserver.py:73-77)
ReplayFrame ==
    /\ cur = SimTask
    /\ pc = "gen"
    /\ frameCount >= 1
    /\ lastIdx' = idx
    /\ idx' = NextIdx(idx, frameCount)
    /\ framesProduced' = Saturate(framesProduced + 1, MaxFrames)
    /\ frameOk' = TRUE
    /\ encoded' = FALSE
    /\ pc' = "process"
    /\ UNCHANGED <<handlerVars, broken, cur, sinceSend, gap, passVars>>
    /\ UNCHANGED <<camVars, fnVars, frameCount>>

\* one frame of the recorded file (camserver.py:73-77), whose samples are
\* whatever SERFile.frame returns: here of a type np.right_shift rejects
ReplayUnsupported ==
    /\ cur = SimTask
    /\ pc = "gen"
    /\ frameCount >= 1
    /\ lastIdx' = idx
    /\ idx' = NextIdx(idx, frameCount)
    /\ framesProduced' = Saturate(framesProduced + 1, MaxFrames)
    /\ frameOk' = FALSE
    /\ encoded' = FALSE
    /\ pc' = "process"
    /\ UNCHANGED <<handlerVars, broken, cur, sinceSend, gap, passVars>>
    /\ UNCHANGED <<camVars, fnVars, frameCount>>

\* callback: shift, histogram and the three messages (camserver.py:34-46)
Process ==
    /\ cur = SimTask
    /\ pc = "process"
    /\ frameOk
    /\ encoded' = TRUE
    /\ pc' = "check"
    /\ UNCHANGED <<handlerVars, broken, cur, framesProduced, frameOk>>
    /\ UNCHANGED <<sinceSend, gap, passVars>>
    /\ UNCHANGED otherVars

\* callback: np.right_shift raises (camserver.py:34); neither callback nor
\* simcam catches it (camserver.py:72-79, 81-88), so the task ends
ProcessRaise ==
    /\ cur = SimTask
    /\ pc = "process"
    /\ ~frameOk
    /\ pc' = "dead"
    /\ cur' = NoTask
    /\ UNCHANGED <<handlerVars, broken, frameVars, passVars>>
    /\ UNCHANGED otherVars

\* callback: if len(clients)==0: return (camserver.py:48-49)
CheckEmpty ==
    /\ cur = SimTask
    /\ pc = "check"
    /\ pc' = IF IsEmpty(clients) THEN "ret_empty" ELSE "acquire"
    /\ UNCHANGED <<handlerVars, broken, cur, frameVars, passVars>>
    /\ UNCHANGED otherVars

\* callback: async with client_lock, for client in list(clients)
\* (camserver.py:51-52)
PassAcquire ==
    /\ cur = SimTask
    /\ pc = "acquire"
    /\ lock = NoTask
    /\ lock' = SimTask
    /\ snap' = clients
    /\ todo' = clients
    /\ order' = <<>>
    /\ gap' = sinceSend
    /\ sinceSend' = 0
    /\ pc' = "iter"
    /\ UNCHANGED <<clients, started, hpc, closeRaised, simTasks, broken, cur>>
    /\ UNCHANGED <<framesProduced, frameOk, encoded, target, k, recv, errored>>
    /\ UNCHANGED otherVars

\* the for loop takes the next client of the list; a set has no order of
\* its own, so any of the clients left may come next
PassNext ==
    /\ cur = SimTask
    /\ pc = "iter"
    /\ \E c \in todo :
         /\ target' = c
         /\ todo' = Remaining(todo, c)
         /\ order' = Append(order, c)
    /\ k' = 1
    /\ pc' = "send"
    /\ UNCHANGED <<handlerVars, broken, cur, frameVars, snap, recv, errored>>
    /\ UNCHANGED otherVars

\* one client.send that returns (camserver.py:54-56)
SendOk ==
    /\ cur = SimTask
    /\ pc = "send"
    /\ target \notin broken
    /\ recv' = [recv EXCEPT ![target] = Append(@, SendOrder[k])]
    /\ IF k = Len(SendOrder)
         THEN /\ pc' = "iter"
              /\ target' = 0
              /\ k' = 0
         ELSE /\ k' = k + 1
              /\ UNCHANGED <<pc, target>>
    /\ UNCHANGED <<handlerVars, broken, cur, frameVars, snap, todo, order, errored>>
    /\ UNCHANGED otherVars

\* one client.send that raises: except Exception prints (camserver.py:57-58)
SendRaise ==
    /\ cur = SimTask
    /\ pc = "send"
    /\ target \in broken
    /\ errored' = errored \cup {target}
    /\ todo' = AfterSendError(todo)
    /\ pc' = "iter"
    /\ target' = 0
    /\ k' = 0
    /\ UNCHANGED <<handlerVars, broken, cur, frameVars, snap, order, recv>>
    /\ UNCHANGED otherVars

\* the list is exhausted: the async with block ends and callback returns
PassRelease ==
    /\ cur = SimTask
    /\ pc = "iter"
    /\ todo = {}
    /\ lock' = NoTask
    /\ pc' = "pass_done"
    /\ UNCHANGED <<clients, started, hpc, closeRaised, simTasks, broken, cur>>
    /\ UNCHANGED <<frameVars, passVars>>
    /\ UNCHANGED otherVars

\* await asyncio.sleep(0.1) (camserver.py:88): the task suspends; what the
\* pass recorded belongs to the frame that is now finished
Sleep ==
    /\ cur = SimTask
    /\ pc \in {"ret_empty", "pass_done"}
    /\ pc' = "asleep"
    /\ cur' = NoTask
    /\ snap' = {}
    /\ order' = <<>>
    /\ recv' = [c \in Clients |-> <<>>]
    /\ errored' = {}
    /\ UNCHANGED <<handlerVars, broken, frameVars, todo, target, k>>
    /\ UNCHANGED otherVars

\* the sleep is over, no sooner than SleepMs later and later when the loop
\* was busy
Period == IF frameCount = 0 THEN SleepMs ELSE ReplaySleepMs

Wake ==
    /\ cur = NoTask
    /\ pc = "asleep"
    /\ \E d \in {Period, 2 * Period} :
         sinceSend' = IF sinceSend = -1 THEN -1
                      ELSE Saturate(sinceSend + d, CapMs)
    /\ pc' = "gen"
    /\ cur' = SimTask
    /\ UNCHANGED <<handlerVars, broken, framesProduced, frameOk, encoded, gap>>
    /\ UNCHANGED passVars
    /\ UNCHANGED otherVars

\* ------------------------------------------------------- specification
HandlerRun ==
    \E c \in Clients : WsOpenAdd(c) \/ WsOpenStart(c) \/ WsCloseRemove(c)

SimRun ==
    \/ Generate
    \/ Process
    \/ CheckEmpty
    \/ PassAcquire
    \/ PassNext
    \/ SendOk
    \/ SendRaise
    \/ PassRelease
    \/ Sleep

Next ==
    \/ \E c \in Clients : WsOpenAcquire(c)
    \/ \E c \in Clients : WsOpenAdd(c)
    \/ \E c \in Clients : WsOpenStart(c)
    \/ \E c \in Clients : WsCloseAcquire(c)
    \/ \E c \in Clients : WsCloseRemove(c)
    \/ \E c \in Clients : Break(c)
    \/ SimStart
    \/ Generate
    \/ Process
    \/ CheckEmpty
    \/ PassAcquire
    \/ PassNext
    \/ SendOk
    \/ SendRaise
    \/ PassRelease
    \/ Sleep
    \/ Wake

Spec == Init /\ [][Next]_vars

\* The event loop runs every ready callback once per iteration: a running
\* task goes on to its next suspension, and a task that is ready again and
\* again (the producer after its sleep) gets the thread.
LiveSpec ==
    /\ Spec
    /\ WF_vars(HandlerRun)
    /\ WF_vars(SimRun)
    /\ SF_vars(SimStart)
    /\ SF_vars(Wake)

\* The producer fed from the recorded file, whose frames are input data.
ReplayNext ==
    \/ Next
    \/ ReplayFrame
    \/ ReplayUnsupported
    \/ ProcessRaise

\* serdata = SERFile(fname); idx = 0 (camserver.py:67-71): the file exists
\* with frame_count >= 1 frames, or it does not exist
FileChoice ==
    /\ frameCount \in 0..MaxFileFrames
    /\ idx = 0
    /\ lastIdx = -1

ReplayInit == ServerInit /\ CamInit /\ FnIdle /\ FileChoice

ReplaySpec == ReplayInit /\ [][ReplayNext]_vars

\* ------------------------------------------------------- SVBonyCamera
\* svb.py.  The caller of add_callback, start_capture and stop_capture is
\* one thread; every start_capture creates a capture thread that runs
\* capture().  The threads interleave freely.
Alive(t) == tpc[t] \notin {"unborn", "exited", "crashed"}

NewThread == Cardinality({t \in Threads : tpc[t] # "unborn"}) + 1

\* add_callback (svb.py:140-152)
AddCallback ==
    /\ mpc = "idle"
    /\ nCallbacks < MaxCallbacks
    /\ nCallbacks' = nCallbacks + 1
    /\ UNCHANGED <<camRunning, capThread, tpc, cbi, driverOn, mpc>>
    /\ UNCHANGED <<stopRequested, getsSinceStop, stopRaised, nonCamVars, deliveryVars>>

\* start_capture (svb.py:252-256): the driver starts, a new thread is
\* created, stored and started; self.running is left as it is
StartCapture ==
    /\ mpc = "idle"
    /\ NewThread \in Threads
    /\ driverOn' = TRUE
    /\ capThread' = NewThread
    /\ tpc' = [tpc EXCEPT ![NewThread] = "setup"]
    /\ stopRequested' = FALSE
    /\ getsSinceStop' = [t \in Threads |-> 0]
    /\ UNCHANGED <<camRunning, cbi, nCallbacks, mpc, stopRaised, nonCamVars, deliveryVars>>

\* capture (svb.py:233-238): roi, image type, wait_duration, then
\* self.running = True
CapSetup(t) ==
    /\ tpc[t] = "setup"
    /\ camRunning' = TRUE
    /\ tpc' = [tpc EXCEPT ![t] = "test"]
    /\ UNCHANGED <<capThread, cbi, nCallbacks, driverOn, mpc>>
    /\ UNCHANGED <<stopRequested, getsSinceStop, stopRaised, nonCamVars, deliveryVars>>

\* capture: while self.running == True (svb.py:241)
CapTest(t) ==
    /\ tpc[t] = "test"
    /\ tpc' = [tpc EXCEPT ![t] = IF camRunning THEN "get" ELSE "exited"]
    /\ UNCHANGED <<camRunning, capThread, cbi, nCallbacks, driverOn, mpc>>
    /\ UNCHANGED <<stopRequested, getsSinceStop, stopRaised, nonCamVars, deliveryVars>>

\* readings of dt.datetime.now() (svb.py:244)
Stamps == {1, 2}

CountGet(t) ==
    IF stopRequested
      THEN [getsSinceStop EXCEPT ![t] = Saturate(@ + 1, 2)]
      ELSE getsSinceStop

\* capture: SVBGetVideoData returns a frame within waitMS (svb.py:242-246,
\* svb_sdk.py:686-696)
CapGetFrame(t) ==
    /\ tpc[t] = "get"
    /\ driverOn
    /\ tpc' = [tpc EXCEPT ![t] = "deliver"]
    /\ cbi' = [cbi EXCEPT ![t] = 1]
    /\ getsSinceStop' = CountGet(t)
    /\ capImg' = [capImg EXCEPT ![t] = 1]
    /\ \E now \in Stamps : capTs' = [capTs EXCEPT ![t] = now]
    /\ calls' = [calls EXCEPT ![t] = <<>>]
    /\ UNCHANGED <<camRunning, capThread, nCallbacks, driverOn, mpc>>
    /\ UNCHANGED <<stopRequested, stopRaised, nonCamVars>>

\* capture: the driver returns a non-zero error code (a timeout, say);
\* SVBGetVideoData raises (svb_sdk.py:687-688) and capture does not catch
\* it, so the thread ends
CapGetError(t) ==
    /\ tpc[t] = "get"
    /\ tpc' = [tpc EXCEPT ![t] = "crashed"]
    /\ getsSinceStop' = CountGet(t)
    /\ UNCHANGED <<camRunning, capThread, cbi, nCallbacks, driverOn, mpc>>
    /\ UNCHANGED <<stopRequested, stopRaised, nonCamVars, deliveryVars>>

\* capture: for callback in self.callbacks: callback(img, dt_now)
\* (svb.py:248-249)
SkipCallback(i) == i + 2
NextCallback(i) == i + 1

CapDeliver(t) ==
    /\ tpc[t] = "deliver"
    /\ cbi[t] <= nCallbacks
    /\ calls' = [calls EXCEPT ![t] = Append(@, <<cbi[t], capImg[t], capTs[t]>>)]
    /\ cbi' = [cbi EXCEPT ![t] = NextCallback(@)]
    /\ UNCHANGED <<camRunning, capThread, tpc, nCallbacks, driverOn, mpc>>
    /\ UNCHANGED <<stopRequested, getsSinceStop, stopRaised>>
    /\ UNCHANGED <<capImg, capTs, nonCamVars>>

\* capture: the list of callbacks is exhausted, back to the loop test
CapDelivered(t) ==
    /\ tpc[t] = "deliver"
    /\ cbi[t] > nCallbacks
    /\ cbi' = [cbi EXCEPT ![t] = 0]
    /\ tpc' = [tpc EXCEPT ![t] = "test"]
    /\ capImg' = [capImg EXCEPT ![t] = 0]
    /\ capTs' = [capTs EXCEPT ![t] = 0]
    /\ calls' = [calls EXCEPT ![t] = <<>>]
    /\ UNCHANGED <<camRunning, capThread, nCallbacks, driverOn, mpc>>
    /\ UNCHANGED <<stopRequested, getsSinceStop, stopRaised, nonCamVars>>

\* stop_capture: self.running = False (svb.py:260)
StopSetFlag ==
    /\ mpc = "idle"
    /\ camRunning' = FALSE
    /\ stopRequested' = (capThread # 0)
    /\ getsSinceStop' = [t \in Threads |-> 0]
    /\ mpc' = "stop_join"
    /\ UNCHANGED <<capThread, tpc, cbi, nCallbacks, driverOn, stopRaised>>
    /\ UNCHANGED <<nonCamVars, deliveryVars>>

\* stop_capture: self.capture_thread.join(...) with capture_thread None
\* raises AttributeError (svb.py:263)
StopJoinRaise ==
    /\ mpc = "stop_join"
    /\ capThread = 0
    /\ stopRaised' = TRUE
    /\ mpc' = "idle"
    /\ UNCHANGED <<camRunning, capThread, tpc, cbi, nCallbacks, driverOn>>
    /\ UNCHANGED <<stopRequested, getsSinceStop, nonCamVars, deliveryVars>>

\* stop_capture: join returns because the thread has ended (svb.py:263)
StopJoinDone ==
    /\ mpc = "stop_join"
    /\ capThread # 0
    /\ ~Alive(capThread)
    /\ mpc' = "stop_finish"
    /\ UNCHANGED <<camRunning, capThread, tpc, cbi, nCallbacks, driverOn>>
    /\ UNCHANGED <<stopRequested, getsSinceStop, stopRaised, nonCamVars, deliveryVars>>

\* stop_capture: join gives up after its timeout (svb.py:261-263) because
\* the thread goes on looping: running is True again
StopJoinTimeout ==
    /\ mpc = "stop_join"
    /\ capThread # 0
    /\ Alive(capThread)
    /\ camRunning
    /\ mpc' = "stop_finish"
    /\ UNCHANGED <<camRunning, capThread, tpc, cbi, nCallbacks, driverOn>>
    /\ UNCHANGED <<stopRequested, getsSinceStop, stopRaised, nonCamVars, deliveryVars>>

\* stop_capture: capture_thread = None and SVBStopVideoCapture
\* (svb.py:264-267)
StopFinish ==
    /\ mpc = "stop_finish"
    /\ capThread' = 0
    /\ driverOn' = FALSE
    /\ mpc' = "idle"
    /\ UNCHANGED <<camRunning, tpc, cbi, nCallbacks>>
    /\ UNCHANGED <<stopRequested, getsSinceStop, stopRaised, nonCamVars, deliveryVars>>

CamNext ==
    \/ AddCallback
    \/ StartCapture
    \/ \E t \in Threads : CapSetup(t)
    \/ \E t \in Threads : CapTest(t)
    \/ \E t \in Threads : CapGetFrame(t)
    \/ \E t \in Threads : CapGetError(t)
    \/ \E t \in Threads : CapDeliver(t)
    \/ \E t \in Threads : CapDelivered(t)
    \/ StopSetFlag
    \/ StopJoinRaise
    \/ StopJoinDone
    \/ StopJoinTimeout
    \/ StopFinish

CamSpec == Init /\ [][CamNext]_vars

\* ------------------------------------------- callback, value by value
\* What callback computes from one frame (camserver.py:26-46).  The frames
\* are those simcam hands over: uint16 from the generator (line 85), uint8
\* or uint16 from a recorded file.
NBins == 1024       \* bins=1024, camserver.py:27
HistRange == 4096   \* range=(0, 4096), camserver.py:27
ShiftBits == 4      \* np.right_shift(frame, 4), camserver.py:34

\* raw samples that reach the first bins, the bin below the last, and the
\* last bin
RawSamples(bits) ==
    IF bits = 8 THEN {0, 64, 255}
    ELSE IF bits = 16 THEN {0, 15, 16, 65455, 65472, 65535}
    ELSE {0, 65535, 65536, 1048576}

RECURSIVE Pow2(_)
Pow2(n) == IF n = 0 THEN 1 ELSE 2 * Pow2(n - 1)

\* np.right_shift(frame, 4) on unsigned samples
right_shift(frame, n) == [i \in 1..Len(frame) |-> frame[i] \div Pow2(n)]

\* np.histogram's bin of a sample: samples outside the range are not
\* counted (0), the upper edge belongs to the last bin
BinOfNext(v) ==
    IF v < 0 \/ v >= HistRange THEN 0 ELSE (v * NBins) \div HistRange + 2
BinOf(v) ==
    IF v < 0 \/ v > HistRange THEN 0
    ELSE IF v = HistRange THEN NBins
    ELSE (v * NBins) \div HistRange + 1

Counts(frame) ==
    [b \in 1..NBins |-> Cardinality({i \in 1..Len(frame) : BinOf(frame[i]) = b})]

\* bins = (bins[1:] + bins[:-1]) / 2 of the NBins + 1 edges (camserver.py:28)
Edge(i) == ((i - 1) * HistRange) \div NBins
Midpoints == [i \in 1..NBins |-> (Edge(i + 1) + Edge(i)) \div 2]

\* hist[-1] = 0 (camserver.py:29)
KeepLast(h) == h
ZeroLast(h) == [h EXCEPT ![NBins] = 0]

compute_histogram(frame) == ZeroLast(Counts(frame))

\* ndarray.tobytes(): every value as width/8 bytes, low byte first
Byte(v, j) ==
    IF j = 0 THEN v % 256
    ELSE IF j = 1 THEN (v \div 256) % 256
    ELSE IF j = 2 THEN (v \div 65536) % 256
    ELSE (v \div 16777216) % 256

tobytes(a, bits) ==
    [i \in 1..(Len(a) * (bits \div 8)) |->
        Byte(a[(i - 1) \div (bits \div 8) + 1], (i - 1) % (bits \div 8))]

\* timestamp.isoformat(): date and time to the second ("T"), and the
\* microseconds only when they are not 0
isoformat(ts) == IF ts = 0 THEN <<"T">> ELSE <<"T", ".", ts>>

\* str(frame.dtype)
DtypeName(bits) ==
    IF bits = 8 THEN "uint8" ELSE IF bits = 16 THEN "uint16" ELSE "uint32"

\* json.dumps(...).encode('utf-8') (camserver.py:37-41): the object as its
\* keys and values in order; the tuple shape is written as an array
JsonBody(ts, shape, bits) ==
    <<"timestamp", isoformat(ts), "shape", shape, "dtype", DtypeName(bits)>>

\* the three messages (camserver.py:37-46), in the order they are sent
EncodeCountsFirst(frame, bits, ts, hist) ==
    << to_bytes_little(frameinfoheader) \o JsonBody(ts, <<1, Len(frame)>>, bits),
       to_bytes_little(framehistogramheader) \o tobytes(hist, 32) \o tobytes(Midpoints, 32),
       to_bytes_little(frameheader) \o tobytes(frame, bits) >>
Encode(frame, bits, ts, hist) ==
    << to_bytes_little(frameinfoheader) \o JsonBody(ts, <<1, Len(frame)>>, bits),
       to_bytes_little(framehistogramheader) \o tobytes(Midpoints, 32) \o tobytes(hist, 32),
       to_bytes_little(frameheader) \o tobytes(frame, bits) >>

FnInputs ==
    /\ fBits \in {8, 16}
    /\ \E n \in 1..MaxPixels : fRaw \in [1..n -> RawSamples(fBits)]
    /\ fTs \in {0, 1}
    /\ fStage = "input"
    /\ fNorm = <<>>
    /\ fHist = <<>>
    /\ fMsgs = <<>>

\* frame = np.right_shift(frame, 4); hist, bins = compute_histogram(frame)
FnProcess ==
    /\ fStage = "input"
    /\ fNorm' = right_shift(fRaw, ShiftBits)
    /\ fHist' = compute_histogram(right_shift(fRaw, ShiftBits))
    /\ fStage' = "processed"
    /\ UNCHANGED <<fBits, fRaw, fTs, fMsgs, serverVars, camVars>>

\* frameinfo, senddata, framehistogram
FnEncode ==
    /\ fStage = "processed"
    /\ fMsgs' = Encode(fNorm, fBits, fTs, fHist)
    /\ fStage' = "encoded"
    /\ UNCHANGED <<fBits, fRaw, fTs, fNorm, fHist, serverVars, camVars>>

FnInit == ServerInit /\ CamInit /\ NoFile /\ FnInputs

FnNext == FnProcess \/ FnEncode

FnSpec == FnInit /\ [][FnNext]_vars

\* callback registered with the camera (svb.py:140-152, 248-249): the frame
\* is what SVBGetVideoData returns, uint8, uint16 or uint32 by bytes per
\* pixel (svb_sdk.py:689-696)
CapFnInputs ==
    /\ fBits \in {8, 16, 32}
    /\ \E n \in 1..MaxPixels : fRaw \in [1..n -> RawSamples(fBits)]
    /\ fTs \in {0, 1}
    /\ fStage = "input"
    /\ fNorm = <<>>
    /\ fHist = <<>>
    /\ fMsgs = <<>>

CapFnInit == ServerInit /\ CamInit /\ NoFile /\ CapFnInputs

CapFnSpec == CapFnInit /\ [][FnNext]_vars

\* The receiving side, which is not part of src/: it reads the messages as
\* the wire format describes them.
fromisoformat(s) == IF Len(s) = 1 THEN 0 ELSE s[3]

DecodeInfo(msg) ==
    LET body == SubSeq(msg, 5, Len(msg))
    IN  [timestamp |-> fromisoformat(body[2]),
         shape |-> body[4],
         dtype |-> body[6]]

U32At(b, i) == b[i] + 256 * b[i + 1] + 65536 * b[i + 2] + 16777216 * b[i + 3]

\* 4 bytes of magic, NBins u32 midpoints, NBins u32 counts
DecodeHist(msg) ==
    [bins |-> [i \in 1..NBins |-> U32At(msg, 4 + 4 * (i - 1) + 1)],
     hist |-> [i \in 1..NBins |-> U32At(msg, 4 + 4 * NBins + 4 * (i - 1) + 1)]]

\* --------------------------------------------------------------- claims
\* the magics as they appear on the wire, first byte first
InfoMagic == <<154, 50, 90, 50>>        \* 0x325a329a
HistMagic == <<248, 165, 141, 52>>      \* 0x348da5f8
HeaderMagic == <<163, 248, 163, 248>>   \* 0xf8a3f8a3
FrameMessages == <<InfoMagic, HistMagic, HeaderMagic>>

\* C1: over every interleaving of opens and closes at most one simcam task
\* is ever created, and started, once True, never becomes False again.
C1_StartAtMostOnce ==
    /\ [](simTasks <= 1 /\ (started <=> simTasks = 1))
    /\ [][started => started']_vars

\* a connection whose ws_open reaches the check of started after the only
\* earlier client has been closed: the pipeline is Running, one task exists
C1_Witness ==
    \E a, b \in Clients :
        /\ a # b
        /\ hpc[a] = "closed"
        /\ hpc[b] = "open_check"
        /\ clients = {b}
        /\ started
        /\ simTasks = 1

\* C2: as long as no ws_open has completed, started is False, no producer
\* task exists, no frame was generated or encoded and nothing was sent.
C2_IdleWithoutClient ==
    (\A c \in Clients : hpc[c] \in {"new", "open_locked", "open_check"})
        => /\ started = FALSE
           /\ simTasks = 0
           /\ pc = "none"
           /\ framesProduced = 0
           /\ encoded = FALSE
           /\ \A c \in Clients : recv[c] = <<>>

\* the first client is in the registry and its handler has not yet looked
\* at started
C2_Witness ==
    /\ \E c \in Clients : hpc[c] = "open_check" /\ c \in clients
    /\ \A c \in Clients : hpc[c] \in {"new", "open_check"}
    /\ started = FALSE

\* C3: when a pass is over, every client of its snapshot whose socket is
\* not broken has received the three messages of the frame, whether or not
\* a send to another client of the snapshot raised, and in either order.
C3_FailureDoesNotAbortPass ==
    pc = "pass_done" => \A c \in snap \ broken : recv[c] = FrameMessages

\* a pass that served the failing client first and the healthy one after it
C3_Witness ==
    /\ pc = "pass_done"
    /\ \E a \in errored, b \in snap \ broken :
         /\ \E i, j \in 1..Len(order) : i < j /\ order[i] = a /\ order[j] = b
         /\ recv[b] = FrameMessages

\* C4: after a pass, no client whose send raised in it is in the registry.
C4_FailedClientRemoved ==
    pc = "pass_done" => errored \cap clients = {}

\* C5: no ws_close ever ends in an error, also not for a client that is not
\* in the registry.
C5_RemoveNeverRaises ==
    closeRaised = {}

\* C6: two passes that send are at least 150 ms apart.
C6_MinSendInterval ==
    gap = -1 \/ gap >= 150

\* C7: when callback returns because the registry is empty, nothing was
\* encoded and nothing was sent for the frame.
C7_NoEncodeWhenEmpty ==
    pc = "ret_empty" => /\ encoded = FALSE
                        /\ \A c \in Clients : recv[c] = <<>>

\* C8: what a client has received of the current frame is, message by
\* message, FrameInfo, FrameHistogram, FrameHeader; the pixels never come
\* before the info and the histogram.
C8_MessageOrder ==
    \A c \in Clients :
        /\ Len(recv[c]) <= 3
        /\ \A i \in 1..Len(recv[c]) : recv[c][i] = FrameMessages[i]
        /\ \A i \in 1..Len(recv[c]) :
             recv[c][i] = HeaderMagic
                => \E h, j \in 1..(i - 1) :
                     recv[c][h] = InfoMagic /\ recv[c][j] = HistMagic

\* a client that has just been sent the pixels of a frame
C8_Witness ==
    \E c \in Clients :
        /\ Len(recv[c]) = 3
        /\ recv[c][3] = HeaderMagic
        /\ pc = "iter"
        /\ c \in snap

C10_RemovedStaysOut ==
    \A c \in Clients :
        hpc[c] = "closed"
            => /\ c \notin clients
               /\ c \notin snap
               /\ target # c
               /\ recv[c] = <<>>

\* a pass that ran, for another client, after the removal
C10_Witness ==
    \E c \in Clients :
        /\ hpc[c] = "closed"
        /\ pc = "pass_done"
        /\ snap # {}
        /\ \E b \in snap : recv[b] = FrameMessages

\* C11: the registry is read and changed only with client_lock held: by
\* ws_open's add, by ws_close's remove, and by callback's emptiness check
\* and its loop over list(clients).
C11_RegistryAccessUnderLock ==
    /\ \A c \in Clients :
         hpc[c] \in {"open_locked", "closing"} => lock = Handler(c)
    /\ pc \in {"check", "ret_empty", "acquire"} => lock = SimTask
    /\ pc \in {"iter", "send"} => lock = SimTask

\* C12: client_lock is not held while callback calls client.send.
C12_NoLockDuringSend ==
    pc = "send" => lock # SimTask

\* C13: while the sends of a frame are under way the producer is free to
\* generate the next frame.
C13_ProducerNotBlockedBySends ==
    pc \in {"iter", "send"} => ENABLED Generate

\* C17: of the current frame no client is sent the same message twice, no
\* client is served twice in a pass, and a client whose send raised is not
\* sent to again.
C17_AtMostOncePerFrame ==
    /\ \A c \in Clients :
         /\ \A i, j \in 1..Len(recv[c]) : recv[c][i] = recv[c][j] => i = j
         /\ c \in errored => target # c /\ c \notin todo
    /\ \A i, j \in 1..Len(order) : order[i] = order[j] => i = j

\* a pass is over in which a client's second or third send raised
C17_Witness ==
    /\ pc = "pass_done"
    /\ \E c \in errored : Len(recv[c]) >= 1
    /\ Len(order) = NumClients

\* C18: once ws_close has been called for a client, the client is
\* eventually out of the registry and stays out.
C18_ClosedEventuallyAbsent ==
    \A c \in Clients : (hpc[c] = "closing") ~> [](c \notin clients)

\* the only client was closed and a later frame found the registry empty
C18_Witness ==
    /\ \E c \in Clients : hpc[c] = "closed" /\ c \notin closeRaised
    /\ clients = {}
    /\ pc = "ret_empty"

\* C14: a frame whose processing raises is not sent to anyone, and the
\* producer task is still running afterwards.
C14_FailedFrameIsSkipped ==
    /\ ~frameOk => \A c \in Clients : recv[c] = <<>>
    /\ pc # "dead"

\* C15: a capture that fails (SVBGetVideoData returns an error code) does
\* not end the capture thread.
C15_FailedCaptureNotFatal ==
    \A t \in Threads : tpc[t] # "crashed"

\* C16: once stop_capture has cleared running after a start_capture, a
\* capture thread finishes at most the SVBGetVideoData wait it is in and
\* makes no further one.
C16_StopEndsLoop ==
    \A t \in Threads : getsSinceStop[t] <= 1

RECURSIVE SumRange(_, _, _)
SumRange(h, lo, hi) ==
    IF lo > hi THEN 0
    ELSE IF lo = hi THEN h[lo]
    ELSE SumRange(h, lo, (lo + hi) \div 2) + SumRange(h, (lo + hi) \div 2 + 1, hi)

C20_ThreeTaggedMessages ==
    fStage = "encoded"
        => /\ Len(fMsgs) = 3
           /\ \A i \in 1..3 : Len(fMsgs[i]) > 4
           /\ SubSeq(fMsgs[1], 1, 4) = InfoMagic
           /\ SubSeq(fMsgs[2], 1, 4) = HistMagic
           /\ SubSeq(fMsgs[3], 1, 4) = HeaderMagic
           /\ \A i, j \in 1..3 :
                i # j => SubSeq(fMsgs[i], 1, 4) # SubSeq(fMsgs[j], 1, 4)

\* an encoded uint16 frame: 4 + 8192 bytes of histogram, 4 + 2 per sample
C20_Witness ==
    /\ fStage = "encoded"
    /\ fBits = 16
    /\ Len(fMsgs[2]) = 8196
    /\ Len(fMsgs[3]) = 4 + 2 * Len(fRaw)

\* C21: decoding the FrameInfo message gives back the timestamp, the shape
\* and the dtype that were encoded, and decoding the FrameHistogram message
\* gives back the 1024 midpoints 2, 6, ..., 4094 and the 1024 counts that
\* processing produced.
C21_RoundTrip ==
    fStage = "encoded"
        => /\ DecodeInfo(fMsgs[1]).timestamp = fTs
           /\ DecodeInfo(fMsgs[1]).shape = <<1, Len(fNorm)>>
           /\ DecodeInfo(fMsgs[1]).dtype = (IF fBits = 8 THEN "uint8" ELSE "uint16")
           /\ Len(fMsgs[2]) = 4 + 4 * 1024 + 4 * 1024
           /\ DecodeHist(fMsgs[2]).bins = [i \in 1..1024 |-> 4 * i - 2]
           /\ DecodeHist(fMsgs[2]).hist = fHist

\* an encoded frame with a timestamp that has microseconds and a count
\* above 1 in some bin
C21_Witness ==
    /\ fStage = "encoded"
    /\ fTs # 0
    /\ \E b \in 1..1024 : fHist[b] >= 2
    /\ DecodeHist(fMsgs[2]).hist = fHist

\* C22: every normalized sample is the raw sample shifted right by 4 bits
\* and lies in [0, 4096), for frames of 8-, 16- and 32-bit samples.
C22_NormalizedInDomain ==
    fStage # "input"
        => \A i \in 1..Len(fRaw) :
             /\ fNorm[i] = fRaw[i] \div 16
             /\ fNorm[i] >= 0
             /\ fNorm[i] < 4096

\* C23: a frame whose normalized samples are all 0 is counted entirely in
\* the first bin: it holds the number of samples, every other bin holds 0.
C23_ZeroFrameInFirstBin ==
    (fStage # "input" /\ \A i \in 1..Len(fNorm) : fNorm[i] = 0)
        => /\ fHist[1] = Len(fRaw)
           /\ \A b \in 2..1024 : fHist[b] = 0

\* a processed frame of raw samples 0 and 15, which all normalize to 0
C23_Witness ==
    /\ fStage = "processed"
    /\ \A i \in 1..Len(fNorm) : fNorm[i] = 0
    /\ \E i \in 1..Len(fRaw) : fRaw[i] # 0
    /\ Len(fRaw) >= 2
    /\ fHist[1] = Len(fRaw)

\* C24: with a recorded file of frame_count >= 1 frames, every index passed
\* to frame() lies in [0, frame_count); the first one is 0 and the one that
\* follows index i is i + 1, or 0 after frame_count - 1.
C24_ReplayCycles ==
    frameCount >= 1
        => /\ idx \in 0..(frameCount - 1)
           /\ lastIdx = -1 => (idx = 0 /\ framesProduced = 0)
           /\ lastIdx # -1 =>
                /\ lastIdx \in 0..(frameCount - 1)
                /\ framesProduced >= 1
                /\ idx = (lastIdx + 1) % frameCount
           /\ framesProduced = 1 => lastIdx = 0

\* the last frame of a file of several frames has been replayed and the
\* index is back at 0
C24_Witness ==
    /\ frameCount >= 2
    /\ lastIdx = frameCount - 1
    /\ idx = 0
    /\ pc = "pass_done"

C26_PrefixDelivery ==
    /\ \A c \in Clients :
         /\ Len(recv[c]) <= 3
         /\ recv[c] = SubSeq(FrameMessages, 1, Len(recv[c]))
         /\ c \in errored =>
              /\ Len(recv[c]) < 3
              /\ target # c
              /\ c \notin todo
         /\ (c \notin errored /\ c # target /\ recv[c] # <<>>) => Len(recv[c]) = 3
    /\ (pc = "send" /\ target \notin errored) => Len(recv[target]) = k - 1
    /\ (errored # {} /\ pc \in {"iter", "send", "pass_done"})
         => todo = snap \ {order[i] : i \in 1..Len(order)}

\* the first client of a pass failed on its second or third send and the
\* second client got the whole frame
C26_Witness ==
    /\ pc = "pass_done"
    /\ Len(order) = 2
    /\ order[1] \in errored
    /\ Len(recv[order[1]]) \in {1, 2}
    /\ order[2] \notin errored
    /\ Len(recv[order[2]]) = 3

\* C27: the registry holds only clients whose open event has added them
\* and whose close event has not yet removed them, and a pass sends only
\* to clients of the registry that are connected.
C27_RegistryMembership ==
    /\ \A c \in clients : hpc[c] \in {"open_check", "connected", "closing"}
    /\ \A c \in Clients :
         hpc[c] \in {"new", "open_locked", "closed"} => c \notin clients
    /\ target # 0 => (target \in clients /\ hpc[target] = "connected")
    /\ \A c \in Clients :
         recv[c] # <<>> => (c \in clients /\ hpc[c] = "connected")
    /\ pc \in {"iter", "send", "pass_done"} => snap = clients

\* a pass is sending to a connected client while another client is closed
\* and out of the registry
C27_Witness ==
    /\ pc = "send"
    /\ k = 2
    /\ target \in clients
    /\ \E c \in Clients : hpc[c] = "closed" /\ c \notin clients /\ c \notin closeRaised

\* stop_capture has returned and no start_capture has followed: the caller
\* is idle, capture_thread is None and the driver's video capture is off
Stopped ==
    /\ mpc = "idle"
    /\ capThread = 0
    /\ ~driverOn
    /\ \E t \in Threads : tpc[t] # "unborn"

\* C28: once stop_capture has returned and the driver's video capture is
\* stopped, no capture thread is alive, so none calls SVBGetVideoData or a
\* callback any more.
C28_StoppedMeansTerminated ==
    Stopped => \A t \in Threads : ~Alive(t)

\* C29: at most one capture thread is alive at any time.
C29_OneCaptureThread ==
    Cardinality({t \in Threads : Alive(t)}) <= 1

\* C30: stop_capture never ends in an exception, and the running flag is
\* True only while some capture thread is alive.
C30_StopSafeAndFlagTracksThread ==
    /\ ~stopRaised
    /\ camRunning => \E t \in Threads : Alive(t)

====
